---- MODULE Spec2Model ----
(***************************************************************************)
(* secure_zipper_pro.py: the archive creation and verification pipeline.   *)
(*                                                                         *)
(* One run of SecureArchiver.create_archive is a small process: it computes *)
(* the output path, opens the staging file, writes one entry per source    *)
(* file, closes the archive, renames the staging file onto the final path  *)
(* and, when asked, verifies the committed file.  The file system is a map *)
(* from paths to inodes and from inodes to contents, so that a handle      *)
(* opened on a path keeps writing to the same file after a rename.  The    *)
(* environment decides which system calls fail and when an interrupt       *)
(* (KeyboardInterrupt, a BaseException) arrives.                           *)
(*                                                                         *)
(* PasswordGenerator.generate is modelled apart, as its own small loop.    *)
(* FileVerifier's two static methods are also called by a caller of their  *)
(* own, with any password, on the final path a finished run leaves behind. *)
(***************************************************************************)
EXTENDS Integers, Sequences, FiniteSets, TLC

\* ------------------------------------------------------------------ bounds

\* Seconds the wall clock can show: 0..MaxClock.
MaxClock == 1
\* Largest length handed to PasswordGenerator.generate (the smallest is -1).
MaxPwLen == 4

\* --------------------------------------------------------------- constants

Runs == {1, 2}
\* Inodes: the file a run creates when it opens its staging path, and the one
\* file that may be on disk before any run starts.
Ino(p) == <<"run", p>>
PreIno == <<"pre", 0>>
NoIno == <<"none", 0>>
Inos == {Ino(p) : p \in Runs} \cup {PreIno}
Creds == {"c1", "c2"}

\* A source path is parent / (stem + ext).  kind and tree say what is on disk
\* there: a regular file, or a directory with the nodes of tree under it, each
\* a path relative to the directory and what the node is.
FileNode(rel) == [rel |-> rel, type |-> "file"]
DirNode(rel) == [rel |-> rel, type |-> "dir"]
\* A symbolic link, and what it resolves to: "file", "dir" or "nothing".
LinkNode(rel, to) == [rel |-> rel, type |-> "link>" \o to]

\* d/a.txt and d/a.pdf: two files with one stem.
SrcTxt == [parent |-> "d", stem |-> "a", ext |-> ".txt", kind |-> "file", tree |-> {}]
SrcPdf == [parent |-> "d", stem |-> "a", ext |-> ".pdf", kind |-> "file", tree |-> {}]
\* d/b: a directory with two files, one in a subdirectory.
SrcDir ==
    [parent |-> "d", stem |-> "b", ext |-> "", kind |-> "dir",
     tree |-> {FileNode(<<"x.txt">>), DirNode(<<"sub">>), FileNode(<<"sub", "y.txt">>)}]
\* d/e: a directory with no file under it.
SrcEmpty ==
    [parent |-> "d", stem |-> "e", ext |-> "", kind |-> "dir", tree |-> {DirNode(<<"sub">>)}]
\* d/l: a directory with no file of its own: a link to a file that lives
\* elsewhere, a link to a directory, a dangling link and a subdirectory.
SrcLinks ==
    [parent |-> "d", stem |-> "l", ext |-> "", kind |-> "dir",
     tree |-> {LinkNode(<<"ln">>, "file"), LinkNode(<<"lnd">>, "dir"),
               LinkNode(<<"gone">>, "nothing"), DirNode(<<"sub">>)}]
Sources == {SrcTxt, SrcPdf, SrcDir, SrcEmpty, SrcLinks}
\* The same source in another directory, t.
Twin(s) == [s EXCEPT !.parent = "t"]

\* Path.name of a source: its last component.
SourceName(s) == <<s.stem, s.ext>>

\* Path.is_file() on a node: it follows symbolic links.
is_file(n) == n.type \in {"file", "link>file"}

\* The names under which the builder adds the source's files: _add_file uses the
\* file's own name, _add_folder the path of every node rglob yields for which
\* is_file() holds, relative to the folder itself.
EntryNames(s) ==
    IF s.kind = "file"
    THEN {<<SourceName(s)>>}
    ELSE {n.rel : n \in {m \in s.tree : is_file(m)}}

\* All orders in which a set can be enumerated (rglob promises none).
Orders(S) ==
    {f \in [1..Cardinality(S) -> S] : \A i, j \in 1..Cardinality(S) : f[i] = f[j] => i = j}

\* ------------------------------------------------------------------ paths

\* _get_output_path: parent / "<stem>_<timestamp>_secured.zip".
OutputPath(s, now) ==
    [parent |-> s.parent, stem |-> s.stem, ts |-> now, suffix |-> ".zip"]

\* StagingPath gone wrong: the archive is written in place, at the final path.
StagingPathInPlace(final) == final

\* _atomic_write: temp_path = final_path.with_suffix('.tmp').
StagingPath(final) == [final EXCEPT !.suffix = ".tmp"]

Stems == {s.stem : s \in Sources}
Parents == {s.parent : s \in Sources} \cup {Twin(s).parent : s \in Sources}
AllPaths ==
    [parent : Parents, stem : Stems, ts : 0..MaxClock, suffix : {".zip", ".tmp"}]
NoPath == [parent |-> "", stem |-> "", ts |-> -1, suffix |-> ""]

\* ------------------------------------------------------- contents of a file

\* A file is a sequence of blocks.  An archive is one block per entry (local
\* header and encrypted data, written by run w under credential cred) and a
\* last block, the central directory with the end record, that lists the names.
EntryBlock(w, name, c) ==
    [k |-> "entry", w |-> w, name |-> name, cred |-> c, names |-> <<>>]
DirBlock(w, names) ==
    [k |-> "eocd", w |-> w, name |-> <<>>, cred |-> "", names |-> names]
\* A block of a file that is no archive of this program.
OtherBlock == [k |-> "other", w |-> 0, name |-> <<>>, cred |-> "", names |-> <<>>]
\* A block never written: the gap a write past the end of file leaves.
HoleBlock == [k |-> "hole", w |-> 0, name |-> <<>>, cred |-> "", names |-> <<>>]

\* A write of one block at offset pos (blocks before it) of a file.
WriteAt(content, pos, b) ==
    [i \in 1..(IF pos + 1 > Len(content) THEN pos + 1 ELSE Len(content)) |->
        IF i = pos + 1 THEN b
        ELSE IF i <= Len(content) THEN content[i]
        ELSE HoleBlock]

\* The archive run w writes for the entries names (in that order) under c.
ArchiveOf(w, names, c) ==
    [i \in 1..(Len(names) + 1) |->
        IF i <= Len(names) THEN EntryBlock(w, names[i], c) ELSE DirBlock(w, names)]

\* ------------------------------------------------------------ the verifier

IsArchive(content) == Len(content) > 0 /\ content[Len(content)].k = "eocd"
NameList(content) == content[Len(content)].names

\* What reading entry i of an archive with `password` does: the entry's data is
\* where the directory says (block i), readable, and encrypted under password.
\* ReadEntry gone wrong: the password is never compared.
ReadEntryAnyPassword(content, i, password) ==
    IF \/ i >= Len(content)
       \/ content[i].k # "entry"
       \/ content[i].name # NameList(content)[i]
    THEN "corrupt"
    ELSE "ok"

ReadEntry(content, i, password) ==
    IF \/ i >= Len(content)
       \/ content[i].k # "entry"
       \/ content[i].name # NameList(content)[i]
    THEN "corrupt"
    ELSE IF content[i].cred # password THEN "badpassword"
    ELSE "ok"

\* The first entry, in directory order, that cannot be read (0: none).
FirstUnreadable(content, password) ==
    LET bad == {i \in 1..Len(NameList(content)) : ReadEntry(content, i, password) # "ok"}
    IN  IF bad = {} THEN 0 ELSE CHOOSE i \in bad : \A j \in bad : i <= j

\* FileVerifier.verify_zip_integrity on the file `content` (NoContent: no file
\* at the path): the (success, message) pair, the message by its kind.
NoContent == <<[k |-> "absent", w |-> 0, name |-> <<>>, cred |-> "", names |-> <<>>]>>
Result(ok, reason, n) == [ok |-> ok, reason |-> reason, n |-> n]

\* verify_zip_integrity gone wrong: the test for an empty name list is
\* missing, so an archive without entries has no bad entry and passes.
verify_zip_integrityNoEmptyTest(content, password) ==
    IF content = NoContent \/ ~IsArchive(content)
    THEN Result(FALSE, "unexpected", 0)
    ELSE LET i == FirstUnreadable(content, password)
         IN  IF i = 0 THEN Result(TRUE, "ok", Len(NameList(content)))
             ELSE IF ReadEntry(content, i, password) = "badpassword"
             THEN Result(FALSE, "badpassword", 0)
             ELSE Result(FALSE, "corrupt", 0)

verify_zip_integrity(content, password) ==
    IF content = NoContent \/ ~IsArchive(content)
    THEN Result(FALSE, "unexpected", 0)
    ELSE IF NameList(content) = <<>>
    THEN Result(FALSE, "empty", 0)
    ELSE LET i == FirstUnreadable(content, password)
         IN  IF i = 0 THEN Result(TRUE, "ok", Len(NameList(content)))
             ELSE IF ReadEntry(content, i, password) = "badpassword"
             THEN Result(FALSE, "badpassword", 0)
             ELSE Result(FALSE, "corrupt", 0)

\* What extractall does on `content`: how many entries reach the scratch
\* directory before it stops, and why it stops ("ok": it did not).
Extracted(content, password) ==
    IF content = NoContent \/ ~IsArchive(content)
    THEN Result(FALSE, "unexpected", 0)
    ELSE LET i == FirstUnreadable(content, password)
         IN  IF i = 0 THEN Result(TRUE, "ok", Len(NameList(content)))
             ELSE Result(FALSE, ReadEntry(content, i, password), i - 1)

\* ------------------------------------------------------------------ logging

\* logger.setLevel(logging.INFO): debug records are dropped.
LoggerAccepts(lvl) == lvl # "DEBUG"
Msg(lvl, text, arg) == [lvl |-> lvl, text |-> text, arg |-> arg]
Emit(log, m) == IF LoggerAccepts(m.lvl) THEN Append(log, m) ELSE log
\* What an f-string puts into a message, as the words of the message:
\* {path.name}, a count, a reason or exception text, an entry name.
Name(path) == <<path.stem, ToString(path.ts), path.suffix>>
Count(n) == <<ToString(n)>>
Text(s) == <<s>>

\* ------------------------------------------------------------------- state

VARIABLES
    clock,      \* datetime.now(), in seconds
    files,      \* the directory: path -> inode (NoIno: no such file)
    inodes,     \* inode -> content
    pre,        \* history: path -> content before any run started
    run,        \* run -> the locals of its create_archive call
    genLen,     \* PasswordGenerator.generate: its argument
    genPw,      \*   the current sample
    genPc,      \*   where the call is
    probe       \* a caller's own use of FileVerifier on a run's final path

vars == <<clock, files, inodes, pre, run, genLen, genPw, genPc, probe>>
pipeVars == <<clock, files, inodes, pre, run, probe>>
genVars == <<genLen, genPw, genPc>>

NoHandle == [ino |-> NoIno, pos |-> 0]
NoResult == [path |-> NoPath, password |-> ""]
\* A scratch directory: whether it is on disk, and the entries extracted into it.
NoDir == [exists |-> FALSE, names |-> {}]
Dir(names) == [exists |-> TRUE, names |-> names]

\* The content a reader finds at a path.
ContentAt(path) == IF files[path] = NoIno THEN NoContent ELSE inodes[files[path]]
Exists(path) == files[path] # NoIno

\* The locals of a run that has not started.
Fresh(s, state) ==
    [ pc |-> state, source_path |-> s, verify |-> FALSE,
      output_path |-> NoPath, temp_path |-> NoPath, password |-> "",
      order |-> <<>>, written |-> 0, zf |-> NoHandle,
      temp_dir |-> "None", scratch |-> NoDir, success |-> Result(FALSE, "none", 0),
      exc |-> "none", orig |-> "none", cleanup |-> "none",
      raised |-> "none", result |-> NoResult,
      committed |-> NoContent, log |-> <<>>, gone |-> FALSE ]

Set(p, r) == [run EXCEPT ![p] = r]
At(p, state) == run[p].pc = state
Started(p) == run[p].pc \notin {"idle", "init"}
Ended(p) == run[p].pc \in {"done", "failed"}

\* ------------------------------------------------------------- environment

\* A second passes.  The clock is read once, by _get_output_path, so it is
\* left alone once every run has read it.
Tick ==
    /\ clock < MaxClock
    /\ \E p \in Runs : At(p, "init")
    /\ clock' = clock + 1
    /\ UNCHANGED <<files, inodes, pre, run, genVars, probe>>

\* The source is deleted or moved away after SecureArchiver was constructed
\* (__init__ checked that it exists) and before create_archive looks at it.
SourceDisappears(p) ==
    /\ At(p, "init")
    /\ ~run[p].gone
    /\ run' = Set(p, [run[p] EXCEPT !.gone = TRUE])
    /\ UNCHANGED <<clock, files, inodes, pre, genVars, probe>>

\* ------------------------------------------------- create_archive: building

\* self.source_path.is_file(): false for a directory, and for a path at which
\* nothing is any more.
SourceIsFile(r) == ~r.gone /\ r.source_path.kind = "file"

\* The entries the builder finds: _add_file's one file, or what _add_folder's
\* rglob('*') yields; on a directory that is not there rglob yields nothing.
Walk(r) == IF r.gone THEN {} ELSE EntryNames(r.source_path)

\* StartRun gone wrong: the generated password is put into an info record.
StartRunLogsPassword(p) ==
    /\ At(p, "init")
    /\ \E v \in BOOLEAN, c \in Creds, o \in Orders(Walk(run[p])) :
          LET out == OutputPath(run[p].source_path, clock)
          IN  run' = Set(p, [run[p] EXCEPT
                  !.pc = "open", !.verify = v, !.password = c, !.order = o,
                  !.output_path = out, !.temp_path = StagingPath(out),
                  !.log = Emit(Emit(Emit(@, Msg("INFO", "create_start", <<>>)),
                                    Msg("INFO", "output", Name(out))),
                               Msg("INFO", "password", Text(c)))])
    /\ UNCHANGED <<clock, files, inodes, pre, genVars, probe>>

\* create_archive(verify) up to the `with self._atomic_write(...)` line: the
\* output path from the clock, the password, two info records, and the staging
\* path _atomic_write derives before it yields.
StartRun(p) ==
    /\ At(p, "init")
    /\ \E v \in BOOLEAN, c \in Creds, o \in Orders(Walk(run[p])) :
          LET out == OutputPath(run[p].source_path, clock)
          IN  run' = Set(p, [run[p] EXCEPT
                  !.pc = "open", !.verify = v, !.password = c, !.order = o,
                  !.output_path = out, !.temp_path = StagingPath(out),
                  !.log = Emit(Emit(@, Msg("INFO", "create_start", <<>>)),
                               Msg("INFO", "output", Name(out)))])
    /\ UNCHANGED <<clock, files, inodes, pre, genVars, probe>>

\* An Exception leaves the `with pyzipper.AESZipFile(...)` block: it is the
\* original error of the run and create_archive's own handler is next.
BuildRaises(r, kind) ==
    [r EXCEPT !.pc = "build_except", !.exc = kind, !.orig = kind, !.zf = NoHandle]

\* A KeyboardInterrupt leaves the block: no `except Exception` catches it, so
\* it passes create_archive's handler and _atomic_write's and reaches the caller.
BuildInterrupted(r) ==
    [r EXCEPT !.pc = "failed", !.exc = "KeyboardInterrupt",
              !.orig = "KeyboardInterrupt", !.raised = "KeyboardInterrupt",
              !.zf = NoHandle]

\* AESZipFile(temp_path, 'w'): creates the file, or truncates the one there.
OpenStaging(p) ==
    /\ At(p, "open")
    /\ LET t == run[p].temp_path
           i == IF Exists(t) THEN files[t] ELSE Ino(p)
       IN  /\ files' = [files EXCEPT ![t] = i]
           /\ inodes' = [inodes EXCEPT ![i] = <<>>]
           /\ run' = Set(p, [run[p] EXCEPT !.pc = "write",
                                            !.zf = [ino |-> i, pos |-> 0]])
    /\ UNCHANGED <<clock, pre, genVars, probe>>

\* The open itself fails (permission, no space): nothing is created.
OpenStagingFails(p) ==
    /\ At(p, "open")
    /\ run' = Set(p, BuildRaises(run[p], "BuildFailed"))
    /\ UNCHANGED <<clock, files, inodes, pre, genVars, probe>>

\* zf.write(file_path, arcname): _add_file for a file source, one turn of
\* _add_folder's loop for a directory.  The block goes where this handle is.
AddEntry(p) ==
    /\ At(p, "write")
    /\ run[p].written < Len(run[p].order)
    /\ LET r == run[p]
           name == r.order[r.written + 1]
       IN  /\ inodes' = [inodes EXCEPT ![r.zf.ino] =
                           WriteAt(@, r.zf.pos, EntryBlock(p, name, r.password))]
           /\ run' = Set(p, [r EXCEPT !.written = @ + 1, !.zf.pos = @ + 1,
                                      !.log = Emit(@, Msg("DEBUG", "added", Text("entry")))])
    /\ UNCHANGED <<clock, files, pre, genVars, probe>>

\* Leaving the `with` block on an error closes the archive: ZipFile.close
\* writes the directory of the entries written so far, unless that fails too.
CloseOnError(p, wrote) ==
    LET r == run[p]
    IN  IF wrote
        THEN [inodes EXCEPT ![r.zf.ino] =
                 WriteAt(@, r.zf.pos, DirBlock(p, SubSeq(r.order, 1, r.written)))]
        ELSE inodes

\* zf.write raises (the file vanished, a read or write error).
AddEntryFails(p) ==
    /\ At(p, "write")
    /\ run[p].written < Len(run[p].order)
    /\ \E wrote \in BOOLEAN : inodes' = CloseOnError(p, wrote)
    /\ run' = Set(p, BuildRaises(run[p], "BuildFailed"))
    /\ UNCHANGED <<clock, files, pre, genVars, probe>>

\* The user interrupts the build (Ctrl-C) while the archive is open.
Interrupt(p) ==
    /\ At(p, "write")
    /\ \E wrote \in BOOLEAN : inodes' = CloseOnError(p, wrote)
    /\ run' = Set(p, BuildInterrupted(run[p]))
    /\ UNCHANGED <<clock, files, pre, genVars, probe>>

\* The end of the `with` block: _add_folder's count record, the directory
\* written by close, and create_archive's "created" record.
CloseArchive(p) ==
    /\ At(p, "write")
    /\ run[p].written = Len(run[p].order)
    /\ LET r == run[p]
           l1 == IF SourceIsFile(r) THEN r.log
                 ELSE Emit(r.log, Msg("INFO", "added_total", Count(r.written)))
       IN  /\ inodes' = [inodes EXCEPT ![r.zf.ino] =
                           WriteAt(@, r.zf.pos, DirBlock(p, r.order))]
           /\ run' = Set(p, [r EXCEPT !.pc = "commit", !.zf = NoHandle,
                                      !.log = Emit(l1, Msg("INFO", "created", Name(r.output_path)))])
    /\ UNCHANGED <<clock, files, pre, genVars, probe>>

\* close raises (no space for the directory): the file stays without one.
CloseArchiveFails(p) ==
    /\ At(p, "write")
    /\ run[p].written = Len(run[p].order)
    /\ run' = Set(p, BuildRaises(run[p], "BuildFailed"))
    /\ UNCHANGED <<clock, files, inodes, pre, genVars, probe>>

\* BuildExcept gone wrong: the handler logs the error and does not re-raise,
\* so the block of _atomic_write ends as if the build had succeeded.
BuildExceptSwallowed(p) ==
    /\ At(p, "build_except")
    /\ run' = Set(p, [run[p] EXCEPT !.pc = "commit",
                          !.log = Emit(@, Msg("ERROR", "create_failed", Text(run[p].exc)))])
    /\ UNCHANGED <<clock, files, inodes, pre, genVars, probe>>

\* create_archive: except Exception as e: logger.error(...); raise.
BuildExcept(p) ==
    /\ At(p, "build_except")
    /\ run' = Set(p, [run[p] EXCEPT !.pc = "atomic_except",
                          !.log = Emit(@, Msg("ERROR", "create_failed", Text(run[p].exc)))])
    /\ UNCHANGED <<clock, files, inodes, pre, genVars, probe>>

\* ----------------------------------------------- _atomic_write: committing

\* temp_path.replace(final_path) after the block ended without an error: the
\* staging file takes the final name, whatever was there before.
Replace(p) ==
    /\ At(p, "commit")
    /\ Exists(run[p].temp_path)
    /\ LET r == run[p]
       IN  /\ files' = [files EXCEPT ![r.output_path] = files[r.temp_path],
                                     ![r.temp_path] = NoIno]
           /\ run' = Set(p, [r EXCEPT !.pc = "committed",
                                      !.committed = ContentAt(r.temp_path),
                                      !.log = Emit(@, Msg("DEBUG", "atomic_done", Name(r.output_path)))])
    /\ UNCHANGED <<clock, inodes, pre, genVars, probe>>

\* replace raises (permission, or the staging file is no longer there).
ReplaceFails(p) ==
    /\ At(p, "commit")
    /\ run' = Set(p, [run[p] EXCEPT !.pc = "atomic_except",
                                     !.exc = "CommitFailed", !.orig = "CommitFailed"])
    /\ UNCHANGED <<clock, files, inodes, pre, genVars, probe>>

\* _atomic_write: except Exception: if temp_path.exists(): temp_path.unlink();
\* raise.  The staging file is there and unlink removes it.
AtomicExceptUnlink(p) ==
    /\ At(p, "atomic_except")
    /\ Exists(run[p].temp_path)
    /\ files' = [files EXCEPT ![run[p].temp_path] = NoIno]
    /\ run' = Set(p, [run[p] EXCEPT !.pc = "failed", !.cleanup = "done",
                                     !.raised = run[p].exc])
    /\ UNCHANGED <<clock, inodes, pre, genVars, probe>>

\* The staging file is there and unlink raises: inside the handler nothing
\* catches that, so unlink's error replaces the one being handled.
AtomicExceptUnlinkFails(p) ==
    /\ At(p, "atomic_except")
    /\ Exists(run[p].temp_path)
    /\ run' = Set(p, [run[p] EXCEPT !.pc = "failed", !.cleanup = "failed",
                                     !.exc = "CleanupFailed", !.raised = "CleanupFailed"])
    /\ UNCHANGED <<clock, files, inodes, pre, genVars, probe>>

\* There is no staging file: the handler only re-raises.
AtomicExceptNoFile(p) ==
    /\ At(p, "atomic_except")
    /\ ~Exists(run[p].temp_path)
    /\ run' = Set(p, [run[p] EXCEPT !.pc = "failed", !.raised = run[p].exc])
    /\ UNCHANGED <<clock, files, inodes, pre, genVars, probe>>

\* ------------------------------------------------ create_archive: the end

\* return output_path, password.
Returned(r) ==
    [r EXCEPT !.pc = "done",
              !.result = [path |-> r.output_path, password |-> r.password]]

\* raise RuntimeError(...) out of _verify_archive and create_archive.
Raised(r, kind) == [r EXCEPT !.pc = "failed", !.exc = kind, !.orig = kind, !.raised = kind]

\* if verify: is false.
ReturnUnverified(p) ==
    /\ At(p, "committed")
    /\ ~run[p].verify
    /\ run' = Set(p, Returned(run[p]))
    /\ UNCHANGED <<clock, files, inodes, pre, genVars, probe>>

\* ---------------------------------------------------------- _verify_archive

\* VerifyIntegrity gone wrong: the verify flag is not looked at.
VerifyIntegrityAlways(p) ==
    /\ At(p, "committed")
    /\ LET r == run[p]
           res == verify_zip_integrity(ContentAt(r.output_path), r.password)
           l1 == Emit(r.log, Msg("INFO", "verify_start", <<>>))
       IN  run' = Set(p, [r EXCEPT !.pc = "integrity_ret", !.success = res,
                   !.log = IF res.ok THEN Emit(l1, Msg("INFO", "integrity_ok", Count(res.n)))
                           ELSE l1])
    /\ UNCHANGED <<clock, files, inodes, pre, genVars, probe>>

\* if verify: the "verification" record, then FileVerifier.verify_zip_integrity
\* on the final path with the run's password; it logs its own success.
VerifyIntegrity(p) ==
    /\ At(p, "committed")
    /\ run[p].verify
    /\ LET r == run[p]
           res == verify_zip_integrity(ContentAt(r.output_path), r.password)
           l1 == Emit(r.log, Msg("INFO", "verify_start", <<>>))
       IN  run' = Set(p, [r EXCEPT !.pc = "integrity_ret", !.success = res,
                   !.log = IF res.ok THEN Emit(l1, Msg("INFO", "integrity_ok", Count(res.n)))
                           ELSE l1])
    /\ UNCHANGED <<clock, files, inodes, pre, genVars, probe>>

\* IntegrityFailed gone wrong: the failure is logged and the run goes on.
IntegrityFailedIgnored(p) ==
    /\ At(p, "integrity_ret")
    /\ ~run[p].success.ok
    /\ run' = Set(p, [run[p] EXCEPT !.pc = "mkdtemp",
                  !.log = Emit(@, Msg("ERROR", "integrity_failed", Text(run[p].success.reason)))])
    /\ UNCHANGED <<clock, files, inodes, pre, genVars, probe>>

\* IntegrityFailed gone wrong: the failure rolls the commit back.
IntegrityFailedRollback(p) ==
    /\ At(p, "integrity_ret")
    /\ ~run[p].success.ok
    /\ files' = [files EXCEPT ![run[p].output_path] = NoIno]
    /\ run' = Set(p, [run[p] EXCEPT !.pc = "failed", !.exc = "IntegrityCheckFailed",
                  !.orig = "IntegrityCheckFailed", !.raised = "IntegrityCheckFailed",
                  !.log = Emit(@, Msg("ERROR", "integrity_failed", Text(run[p].success.reason)))])
    /\ UNCHANGED <<clock, inodes, pre, genVars, probe>>

\* if not success: logger.error(...); raise RuntimeError(...).
IntegrityFailed(p) ==
    /\ At(p, "integrity_ret")
    /\ ~run[p].success.ok
    /\ run' = Set(p, Raised([run[p] EXCEPT
                  !.log = Emit(@, Msg("ERROR", "integrity_failed", Text(run[p].success.reason)))],
                  "IntegrityCheckFailed"))
    /\ UNCHANGED <<clock, files, inodes, pre, genVars, probe>>

IntegrityPassed(p) ==
    /\ At(p, "integrity_ret")
    /\ run[p].success.ok
    /\ run' = Set(p, [run[p] EXCEPT !.pc = "mkdtemp",
                  !.log = Emit(@, Msg("INFO", "integrity_passed", Count(run[p].success.n)))])
    /\ UNCHANGED <<clock, files, inodes, pre, genVars, probe>>

\* -------------------------------------------------- FileVerifier.test_extraction

\* temp_dir = tempfile.mkdtemp(...): a new, empty directory of this call's own.
Mkdtemp(p) ==
    /\ At(p, "mkdtemp")
    /\ run' = Set(p, [run[p] EXCEPT !.pc = "extract", !.temp_dir = "set", !.scratch = Dir({})])
    /\ UNCHANGED <<clock, files, inodes, pre, genVars, probe>>

\* mkdtemp raises: temp_dir is still None; except Exception makes the result.
MkdtempFails(p) ==
    /\ At(p, "mkdtemp")
    /\ run' = Set(p, [run[p] EXCEPT !.pc = "finally",
                                     !.success = Result(FALSE, "extract_io", 0)])
    /\ UNCHANGED <<clock, files, inodes, pre, genVars, probe>>

\* The names of the first n entries the directory lists.
FirstNames(content, n) == IF n = 0 THEN {} ELSE {NameList(content)[i] : i \in 1..n}

\* with AESZipFile(zip_path, 'r'): setpassword; extractall(temp_path); then the
\* count and the info record, or except Exception with what was extracted so
\* far left in the scratch directory.
Extract(p) ==
    /\ At(p, "extract")
    /\ LET r == run[p]
           content == ContentAt(r.output_path)
           x == Extracted(content, r.password)
       IN  run' = Set(p, [r EXCEPT
               !.pc = "finally",
               !.scratch = Dir(FirstNames(content, x.n)),
               !.success = IF x.ok THEN x ELSE Result(FALSE, "extract_" \o x.reason, 0),
               !.log = IF x.ok THEN Emit(@, Msg("INFO", "extract_ok", Count(x.n))) ELSE @])
    /\ UNCHANGED <<clock, files, inodes, pre, genVars, probe>>

\* extractall raises on the scratch side (no space) after n entries.
ExtractFails(p) ==
    /\ At(p, "extract")
    /\ LET r == run[p]
           content == ContentAt(r.output_path)
           x == Extracted(content, r.password)
       IN  \E n \in 0..x.n :
             run' = Set(p, [r EXCEPT
                 !.pc = "finally",
                 !.scratch = Dir(FirstNames(content, n)),
                 !.success = Result(FALSE, "extract_io", 0)])
    /\ UNCHANGED <<clock, files, inodes, pre, genVars, probe>>

\* Finally gone wrong: the scratch directory is removed on the success path
\* only (the cleanup written after the count, not in a finally clause).
FinallyOnSuccessOnly(r) ==
    [r EXCEPT !.pc = "extract_ret",
              !.scratch = IF r.success.ok THEN NoDir ELSE @]

\* finally: if temp_dir and Path(temp_dir).exists(): shutil.rmtree(temp_dir,
\* ignore_errors=True); then the (success, message) pair is returned.
Finally(r) ==
    [r EXCEPT !.pc = "extract_ret",
              !.scratch = IF r.temp_dir # "None" /\ r.scratch.exists THEN NoDir ELSE @]

LeaveExtraction(p) ==
    /\ At(p, "finally")
    /\ run' = Set(p, Finally(run[p]))
    /\ UNCHANGED <<clock, files, inodes, pre, genVars, probe>>

\* if not success: logger.error(...); raise RuntimeError(...).
ExtractionFailed(p) ==
    /\ At(p, "extract_ret")
    /\ ~run[p].success.ok
    /\ run' = Set(p, Raised([run[p] EXCEPT
                  !.log = Emit(@, Msg("ERROR", "extract_failed", Text(run[p].success.reason)))],
                  "ExtractionTestFailed"))
    /\ UNCHANGED <<clock, files, inodes, pre, genVars, probe>>

\* Both checks passed: two info records, _verify_archive returns and
\* create_archive returns the path and the password.
ExtractionPassed(p) ==
    /\ At(p, "extract_ret")
    /\ run[p].success.ok
    /\ run' = Set(p, Returned([run[p] EXCEPT
                  !.log = Emit(Emit(@, Msg("INFO", "extract_passed", Count(run[p].success.n))),
                               Msg("INFO", "verify_done", <<>>))]))
    /\ UNCHANGED <<clock, files, inodes, pre, genVars, probe>>

\* ------------------------------------- FileVerifier, called by any caller

\* The two checks are static methods: a caller can hand them any path and any
\* password.  Here a caller does so once create_archive has ended, on the
\* final path of that run (where the archive is, or an older file, or no
\* file), first verify_zip_integrity and then test_extraction.
NoProbe ==
    [ pc |-> "idle", zip_path |-> NoPath, password |-> "", before |-> NoContent,
      integrity |-> Result(FALSE, "none", 0),
      temp_dir |-> "None", scratch |-> NoDir, success |-> Result(FALSE, "none", 0),
      raised |-> "none" ]

\* ProbeIntegrity gone wrong: the archive is opened with mode 'w', which
\* truncates the file or makes a new one, and closed again.
ProbeIntegrityTruncating ==
    /\ probe.pc = "idle"
    /\ Ended(1)
    /\ \E c \in Creds :
          LET f == run[1].output_path
              i == IF Exists(f) THEN files[f] ELSE Ino(2)
          IN  /\ files' = [files EXCEPT ![f] = i]
              /\ inodes' = [inodes EXCEPT ![i] = <<DirBlock(0, <<>>)>>]
              /\ probe' = [probe EXCEPT !.pc = "integrity_ret", !.zip_path = f,
                              !.password = c, !.before = ContentAt(f),
                              !.integrity = Result(FALSE, "empty", 0)]
    /\ UNCHANGED <<clock, pre, run, genVars>>

\* verify_zip_integrity(zip_path, password): with AESZipFile(zip_path, 'r').
ProbeIntegrity ==
    /\ probe.pc = "idle"
    /\ Ended(1)
    /\ \E c \in Creds :
          LET f == run[1].output_path
          IN  probe' = [probe EXCEPT !.pc = "integrity_ret", !.zip_path = f,
                          !.password = c, !.before = ContentAt(f),
                          !.integrity = verify_zip_integrity(ContentAt(f), c)]
    /\ UNCHANGED <<clock, files, inodes, pre, run, genVars>>

\* test_extraction(zip_path, password): mkdtemp.
ProbeMkdtemp ==
    /\ probe.pc = "integrity_ret"
    /\ probe' = [probe EXCEPT !.pc = "extract", !.temp_dir = "set", !.scratch = Dir({})]
    /\ UNCHANGED <<clock, files, inodes, pre, run, genVars>>

\* ProbeMkdtempFails gone wrong: mkdtemp is called before the try statement,
\* so its error reaches the caller.
ProbeMkdtempRaises ==
    /\ probe.pc = "integrity_ret"
    /\ probe' = [probe EXCEPT !.pc = "extract_ret", !.raised = "OSError"]
    /\ UNCHANGED <<clock, files, inodes, pre, run, genVars>>

\* mkdtemp raises inside the try: except Exception makes the result.
ProbeMkdtempFails ==
    /\ probe.pc = "integrity_ret"
    /\ probe' = [probe EXCEPT !.pc = "finally",
                               !.success = Result(FALSE, "extract_io", 0)]
    /\ UNCHANGED <<clock, files, inodes, pre, run, genVars>>

\* with AESZipFile(zip_path, 'r'): setpassword; extractall(temp_path).
ProbeExtract ==
    /\ probe.pc = "extract"
    /\ LET content == ContentAt(probe.zip_path)
           x == Extracted(content, probe.password)
       IN  probe' = [probe EXCEPT
               !.pc = "finally",
               !.scratch = Dir(FirstNames(content, x.n)),
               !.success = IF x.ok THEN x ELSE Result(FALSE, "extract_" \o x.reason, 0)]
    /\ UNCHANGED <<clock, files, inodes, pre, run, genVars>>

\* extractall raises on the scratch side after n entries.
ProbeExtractFails ==
    /\ probe.pc = "extract"
    /\ LET content == ContentAt(probe.zip_path)
           x == Extracted(content, probe.password)
       IN  \E n \in 0..x.n :
             probe' = [probe EXCEPT
                 !.pc = "finally",
                 !.scratch = Dir(FirstNames(content, n)),
                 !.success = Result(FALSE, "extract_io", 0)]
    /\ UNCHANGED <<clock, files, inodes, pre, run, genVars>>

\* finally: the scratch directory is removed; the pair is returned.
ProbeFinally ==
    /\ probe.pc = "finally"
    /\ probe' = Finally(probe)
    /\ UNCHANGED <<clock, files, inodes, pre, run, genVars>>

\* ------------------------------------------------ PasswordGenerator.generate

\* Config.PASSWORD_CHARS, by representatives: letters, digits and symbols.
PASSWORD_CHARS == {"a", "Z", "7", "!", "*"}
isdigit(c) == c \in {"7"}
isalpha(c) == c \in {"a", "Z"}
issymbol(c) == c \in {"!", "*"}

\* range(length): empty for a length of zero or less.
Range(length) == 1..(IF length < 0 THEN 0 ELSE length)

\* password = ''.join(secrets.choice(alphabet) for _ in range(length)).
GenSample ==
    /\ genPc = "sample"
    /\ \E pw \in [Range(genLen) -> PASSWORD_CHARS] : genPw' = pw
    /\ genPc' = "check"
    /\ UNCHANGED <<genLen, pipeVars>>

\* Composed gone wrong: the symbol is not asked for (the docstring names only
\* a digit and a letter).
ComposedDigitAndLetter(pw) ==
    /\ \E i \in DOMAIN pw : isdigit(pw[i])
    /\ \E i \in DOMAIN pw : isalpha(pw[i])

\* The composition test of the sample.
Composed(pw) ==
    /\ \E i \in DOMAIN pw : isdigit(pw[i])
    /\ \E i \in DOMAIN pw : isalpha(pw[i])
    /\ \E i \in DOMAIN pw : issymbol(pw[i])

\* if (any digit and any letter and any symbol): return password.
GenReturn ==
    /\ genPc = "check"
    /\ Composed(genPw)
    /\ genPc' = "returned"
    /\ UNCHANGED <<genLen, genPw, pipeVars>>

\* Otherwise: while True goes round again; the rejected sample is dropped
\* (password is bound anew by the next turn before it is read).
GenRetry ==
    /\ genPc = "check"
    /\ ~Composed(genPw)
    /\ genPc' = "sample"
    /\ genPw' = <<>>
    /\ UNCHANGED <<genLen, pipeVars>>

\* ------------------------------------------------------------ specifications

ZipPaths == {f \in AllPaths : f.suffix = ".zip"}

\* The disk before the runs: nothing at the paths the runs may use, or one
\* file that is no work of theirs at a path that may become a final path.
InitDisk(olds) ==
    /\ clock = 0
    /\ \E old \in olds :
          files = [f \in AllPaths |-> IF f = old THEN PreIno ELSE NoIno]
    /\ inodes = [i \in Inos |-> IF i = PreIno THEN <<OtherBlock>> ELSE <<>>]
    /\ pre = [f \in AllPaths |-> ContentAt(f)]
    /\ probe = NoProbe

GenIdle == genLen = 0 /\ genPw = <<>> /\ genPc = "idle"

\* SecureArchiver(source_path) was constructed for an existing source, and
\* create_archive is about to be called on it, once.
Init ==
    /\ InitDisk({f \in ZipPaths : f.parent \in {s.parent : s \in Sources}} \cup {NoPath})
    /\ \E s \in Sources : run = [p \in Runs |-> Fresh(s, IF p = 1 THEN "init" ELSE "idle")]
    /\ GenIdle

\* Two archivers on different source paths, create_archive called on both.
\* The runs are alike, so one order of each pair is enough.
ConcPairs == {<<SrcTxt, SrcPdf>>, <<SrcTxt, SrcDir>>, <<SrcDir, SrcEmpty>>}

InitConc ==
    /\ InitDisk({NoPath})
    /\ \E ss \in ConcPairs : run = [p \in Runs |-> Fresh(ss[p], "init")]
    /\ GenIdle

\* Two archivers on sources that are alike, in two directories: what the runs
\* are given differs in nothing but the password each generates.
InitTwin ==
    /\ InitDisk({NoPath})
    /\ \E s \in Sources \ {SrcPdf} :
          run = [p \in Runs |-> Fresh(IF p = 1 THEN s ELSE Twin(s), "init")]
    /\ GenIdle

\* PasswordGenerator.generate(length) was called.
InitGen ==
    /\ InitDisk({NoPath})
    /\ run = [p \in Runs |-> Fresh(CHOOSE s \in Sources : TRUE, "idle")]
    /\ genLen \in -1..MaxPwLen /\ genPw = <<>> /\ genPc = "sample"

Step(p) ==
    \/ StartRun(p)
    \/ OpenStaging(p) \/ OpenStagingFails(p)
    \/ AddEntry(p) \/ AddEntryFails(p) \/ Interrupt(p)
    \/ CloseArchive(p) \/ CloseArchiveFails(p)
    \/ BuildExcept(p)
    \/ Replace(p) \/ ReplaceFails(p)
    \/ AtomicExceptUnlink(p) \/ AtomicExceptUnlinkFails(p) \/ AtomicExceptNoFile(p)
    \/ ReturnUnverified(p)
    \/ VerifyIntegrity(p) \/ IntegrityFailed(p) \/ IntegrityPassed(p)
    \/ Mkdtemp(p) \/ MkdtempFails(p)
    \/ Extract(p) \/ ExtractFails(p)
    \/ LeaveExtraction(p)
    \/ ExtractionFailed(p) \/ ExtractionPassed(p)

\* The runs, with sources that stay where they are.
NextConc == Tick \/ \E p \in Runs : Step(p)

Next == Tick \/ \E p \in Runs : SourceDisappears(p) \/ Step(p)

\* The runs alone: the clock stands still.
NextTwin == \E p \in Runs : Step(p)

\* A caller's use of the verifier on the outcome of a run.
ProbeNext ==
    \/ ProbeIntegrity
    \/ ProbeMkdtemp \/ ProbeMkdtempFails
    \/ ProbeExtract \/ ProbeExtractFails
    \/ ProbeFinally

GenNext == GenSample \/ GenReturn \/ GenRetry

\* One run of the pipeline.
Spec == Init /\ [][Next]_vars

\* Two runs of the pipeline, interleaved in every way.
SpecConc == InitConc /\ [][NextConc]_vars

\* Two runs on like sources that cannot meet on disk, in the same second.
SpecTwin == InitTwin /\ [][NextTwin]_vars

\* One run of the pipeline, and then a caller checking what it left.
SpecVerifier == Init /\ [][Next \/ ProbeNext]_vars

\* One call of the generator; the interpreter keeps executing the loop.
SpecGen == InitGen /\ [][GenNext]_vars /\ WF_vars(GenNext)

\* ------------------------------------------------------------------ claims

\* The archives run p can have built: every entry of its source, in one of the
\* orders the walk may take, under the run's password, and the directory.
FullArchives(p) ==
    {ArchiveOf(p, o, run[p].password) : o \in Orders(Walk(run[p]))}
Logged(p, text) == \E i \in DOMAIN run[p].log : run[p].log[i].text = text

\* C1: at every moment of a run, failed and interrupted builds included, every
\* path that can be a final path has no file, or the content it had before
\* the run, or the complete new archive of the run whose final path it is.
C1_AtomicFinalPath ==
    \A f \in ZipPaths :
        \/ ContentAt(f) = NoContent
        \/ ContentAt(f) = pre[f]
        \/ \E p \in Runs : /\ Started(p)
                            /\ run[p].output_path = f
                            /\ ContentAt(f) \in FullArchives(p)

\* C1 witness: a build interrupted after it wrote an entry, with an older file
\* at the final path.
C1_Witness ==
    /\ run[1].pc = "failed" /\ run[1].orig = "KeyboardInterrupt"
    /\ run[1].written >= 1
    /\ pre[run[1].output_path] # NoContent

\* C2: create_archive has returned (path, password) only if the complete
\* archive was built and committed at the final path and, with verify, both
\* checks ran and passed on the file there; a run that raised returned nothing.
C2_NoPartialSuccess ==
    \A p \in Runs :
        /\ run[p].result # NoResult =>
              /\ run[p].pc = "done" /\ run[p].raised = "none" /\ run[p].exc = "none"
              /\ run[p].result = [path |-> run[p].output_path, password |-> run[p].password]
              /\ run[p].committed \in FullArchives(p)
              /\ ContentAt(run[p].output_path) = run[p].committed
              /\ run[p].verify =>
                    /\ Logged(p, "integrity_passed") /\ Logged(p, "extract_passed")
                    /\ verify_zip_integrity(ContentAt(run[p].output_path), run[p].password).ok
                    /\ Extracted(ContentAt(run[p].output_path), run[p].password).ok
                    /\ run[p].success.ok
        /\ run[p].pc = "done" => run[p].result # NoResult
        /\ run[p].raised # "none" => run[p].pc = "failed" /\ run[p].result = NoResult
        /\ run[p].pc = "failed" => run[p].raised # "none"

\* C2 witness: a verified run that returned.
C2_Witness ==
    run[1].pc = "done" /\ run[1].verify /\ run[1].result # NoResult

\* C3: after a build failure the final path has what it had before the run
\* and the caller gets the build's own error.
C3_BuildFailureUntouched ==
    \A p \in Runs :
        (run[p].pc = "failed" /\ run[p].orig = "BuildFailed") =>
            /\ ContentAt(run[p].output_path) = pre[run[p].output_path]
            /\ run[p].raised = "BuildFailed"

\* C4: a file that was at a final path before the run keeps its content.
C4_NoSilentOverwrite ==
    \A f \in ZipPaths : pre[f] # NoContent => ContentAt(f) = pre[f]

\* C5: of two runs on different sources, each one that returned has its own
\* complete archive at its final path, as it would running alone.
C5_ConcurrentRunsIndependent ==
    \A p \in Runs :
        run[p].pc = "done" => ContentAt(run[p].output_path) \in FullArchives(p)

\* C6: when the removal of the staging file fails, the caller still gets the
\* build or commit error that started the cleanup.
C6_CleanupNeverMasks ==
    \A p \in Runs :
        (run[p].pc = "failed" /\ run[p].cleanup = "failed") => run[p].raised = run[p].orig

\* C7: once create_archive has ended, however it ended, there is no file at
\* its staging path.
C7_StagingReleased ==
    \A p \in Runs : Ended(p) => ~Exists(run[p].temp_path)

\* C8: when a check of the verification fails the run ends with that error and
\* no result, and the final path still holds the file as it was committed.
C8_VerifyFailureKeepsArtifact ==
    \A p \in Runs :
        run[p].raised \in {"IntegrityCheckFailed", "ExtractionTestFailed"} =>
            /\ run[p].pc = "failed" /\ run[p].result = NoResult /\ run[p].verify
            /\ Exists(run[p].output_path)
            /\ ContentAt(run[p].output_path) = run[p].committed

\* C8 witness: the integrity check failed on a committed archive.
C8_Witness ==
    /\ run[1].raised = "IntegrityCheckFailed"
    /\ ~run[1].success.ok
    /\ run[1].committed # NoContent

C10_ShortLengthRejected ==
    (genPc = "sample" /\ genLen < 3) ~> (genPc = "rejected")

\* C11: when the source has disappeared between construction and the build,
\* the run commits no archive at its final path and returns no result.
C11_VanishedSourceFails ==
    \A p \in Runs :
        (run[p].gone /\ Started(p)) =>
            /\ run[p].committed = NoContent
            /\ ContentAt(run[p].output_path) = pre[run[p].output_path]
            /\ run[p].result = NoResult

\* C12: the entries of a committed archive are, for a directory source, the
\* regular files under it, each once and under its path relative to the
\* directory (directories and symbolic links are no entries); for a file
\* source, the one file under its own name.
C12_EntriesAreRegularFiles ==
    \A p \in Runs :
        (run[p].committed # NoContent /\ ~run[p].gone) =>
            LET names == NameList(run[p].committed)
                s == run[p].source_path
            IN  /\ \A i, j \in DOMAIN names : names[i] = names[j] => i = j
                /\ {names[i] : i \in DOMAIN names} =
                      IF s.kind = "file" THEN {<<SourceName(s)>>}
                      ELSE {n.rel : n \in {m \in s.tree : m.type = "file"}}

\* A directory source with no regular file (and no link to one) under it.
EmptySource(p) ==
    run[p].source_path.kind = "dir" /\ EntryNames(run[p].source_path) = {}

ProbesProduced ==
    /\ probe.pc # "idle"
    /\ run[1].committed # NoContent
    /\ ContentAt(probe.zip_path) = run[1].committed
\* test_extraction has returned, and not for want of scratch space.
ExtractionAnswered == probe.pc = "extract_ret" /\ probe.success.reason # "extract_io"

\* C14, as amended: on a built archive with at least one entry both checks
\* pass with the credential it was built with, and with any other credential
\* both fail for the bad password (test_extraction's message being the
\* codec's bad-password text behind its own prefix).  On a built archive
\* without entries, whatever the credential, verify_zip_integrity fails as
\* empty and test_extraction passes with nothing extracted.
C14_RoundTripNonEmpty ==
    ProbesProduced =>
        LET right == probe.password = run[1].password
        IN  IF NameList(run[1].committed) # <<>>
            THEN /\ right => probe.integrity.ok
                 /\ ~right => probe.integrity = Result(FALSE, "badpassword", 0)
                 /\ (ExtractionAnswered /\ right) => probe.success.ok
                 /\ (ExtractionAnswered /\ ~right) =>
                        probe.success = Result(FALSE, "extract_badpassword", 0)
            ELSE /\ probe.integrity = Result(FALSE, "empty", 0)
                 /\ ExtractionAnswered => probe.success = Result(TRUE, "ok", 0)

\* C14 witness: both checks were made with the other credential on a built
\* archive that has an entry.
C14_Witness ==
    /\ ProbesProduced /\ probe.pc = "extract_ret"
    /\ NameList(run[1].committed) # <<>>
    /\ probe.password # run[1].password
    /\ probe.integrity.reason = "badpassword"
    /\ probe.success.reason = "extract_badpassword"

\* C14, as claimed: on every built archive both checks pass with the
\* credential it was built with and fail for the bad password with any other.
C14_RoundTrip ==
    ProbesProduced =>
        LET right == probe.password = run[1].password
        IN  /\ right => probe.integrity.ok
            /\ ~right => probe.integrity = Result(FALSE, "badpassword", 0)
            /\ (ExtractionAnswered /\ right) => probe.success.ok
            /\ (ExtractionAnswered /\ ~right) =>
                   probe.success = Result(FALSE, "extract_badpassword", 0)

\* What of a run's locals does not depend on the password it generated, the
\* directory of its source and the files it opened.
Low(r) ==
    [r EXCEPT !.password = "", !.log = <<>>, !.committed = NoContent,
              !.result = NoResult, !.zf.ino = NoIno, !.source_path.parent = "",
              !.output_path.parent = "", !.temp_path.parent = ""]
\* The words of the messages of a log.
LogWords(log) == UNION {{log[i].arg[k] : k \in DOMAIN log[i].arg} : i \in DOMAIN log}

\* C15: no message a run logs has the run's password in it, and two runs
\* that are alike in all but their passwords have logged the same messages.
C15_PasswordNeverLogged ==
    /\ \A p \in Runs : Started(p) => run[p].password \notin LogWords(run[p].log)
    /\ \A p, q \in Runs : Low(run[p]) = Low(run[q]) => run[p].log = run[q].log

\* C15 witness: two verified runs alike in all but their passwords have ended,
\* with what they logged.
C15_Witness ==
    /\ run[1].pc = "done" /\ run[2].pc = "done" /\ run[1].verify
    /\ Low(run[1]) = Low(run[2])
    /\ run[1].password # run[2].password
    /\ Len(run[1].log) >= 8

\* C16: once verify_zip_integrity or test_extraction has been called on a
\* path, at its return and ever after, pass or fail, the file at the path is
\* there or not as it was before the call, with the content it had.
C16_VerifierReadOnly ==
    /\ probe.pc # "idle" => ContentAt(probe.zip_path) = probe.before
    /\ \A p \in Runs :
          run[p].pc \in {"integrity_ret", "mkdtemp", "extract", "finally", "extract_ret"} =>
              /\ Exists(run[p].output_path)
              /\ ContentAt(run[p].output_path) = run[p].committed

\* C16 witness: both checks have failed, called with a wrong password on an
\* archive that is on disk.
C16_Witness ==
    /\ probe.pc = "extract_ret"
    /\ IsArchive(probe.before) /\ NameList(probe.before) # <<>>
    /\ ~probe.integrity.ok /\ ~probe.success.ok
    /\ probe.success.reason = "extract_badpassword"

\* C17: a password generate(length) returns, for a length of 3 or more, has
\* length characters, all of the alphabet, among them a digit, a letter and
\* one of the symbols !@#$%^&*.
C17_ReturnedPasswordComposed ==
    (genPc = "returned" /\ genLen >= 3) =>
        /\ Len(genPw) = genLen
        /\ \A i \in 1..Len(genPw) : genPw[i] \in PASSWORD_CHARS
        /\ \E i \in 1..Len(genPw) : genPw[i] \in {"7"}
        /\ \E i \in 1..Len(genPw) : genPw[i] \in {"a", "Z"}
        /\ \E i \in 1..Len(genPw) : genPw[i] \in {"!", "*"}

\* C17 witness: generate(3) returned.
C17_Witness == genPc = "returned" /\ genLen = 3 /\ Len(genPw) = 3

\* The stage of the pipeline a run is in.  Failing: an exception is on its
\* way through the handlers of create_archive and _atomic_write.
Stage(r) ==
    CASE r.pc \in {"idle", "init"} -> "Init"
      [] r.pc \in {"open", "write"} -> "Building"
      [] r.pc = "commit" -> "Committing"
      [] r.pc = "committed" -> "Committed"
      [] r.pc \in {"integrity_ret", "mkdtemp", "extract", "finally", "extract_ret"} -> "Verifying"
      [] r.pc \in {"build_except", "atomic_except"} -> "Failing"
      [] r.pc = "done" -> "Done"
      [] r.pc = "failed" -> "Failed"

\* The stage changes the order of the pipeline allows.
StageOrder(r) ==
    {<<"Init", "Building">>, <<"Building", "Committing">>,
     <<"Committing", "Committed">>,
     <<"Building", "Failing">>, <<"Building", "Failed">>,
     <<"Committing", "Failing">>, <<"Failing", "Failed">>,
     <<"Verifying", "Failed">>, <<"Verifying", "Done">>}
    \cup (IF r.verify THEN {<<"Committed", "Verifying">>} ELSE {<<"Committed", "Done">>})

\* C18: a run goes through Init, Building, Committing and, with verify,
\* Verifying to Done, in this order; the final path is renamed onto only by
\* a run whose writer has written every entry and was closed without error;
\* verification begins only after the commit and is made on the file at the
\* final path; and after a failure no later stage is entered, only Failed.
C18_StageOrder ==
    [][\A p \in Runs :
         LET r == run[p]
             n == run'[p]
         IN  /\ Stage(n) # Stage(r) => <<Stage(r), Stage(n)>> \in StageOrder(r)
             /\ (Started(p) /\ files'[r.output_path] # files[r.output_path]) =>
                    /\ r.pc = "commit" /\ n.pc = "committed"
                    /\ r.zf = NoHandle /\ r.exc = "none"
                    /\ r.written = Len(r.order)
                    /\ ContentAt(r.temp_path) = ArchiveOf(p, r.order, r.password)
                    /\ n.committed = ContentAt(r.temp_path)
             /\ (Stage(r) # "Verifying" /\ Stage(n) = "Verifying") =>
                    /\ r.committed # NoContent
                    /\ ~Exists(r.temp_path)
                    /\ ContentAt(r.output_path) = r.committed
                    /\ n.success = verify_zip_integrity(r.committed, r.password)
             /\ r.exc # "none" => Stage(n) \in {"Failing", "Failed"}
      ]_vars

\* C18 witness: the rename failed after a complete build with an entry, and
\* the run ended without a verification.
C18_Witness ==
    /\ run[1].pc = "failed" /\ run[1].orig = "CommitFailed" /\ run[1].verify
    /\ run[1].written >= 1
    /\ ~Logged(1, "verify_start")

\* The reasons a failure pair of the verifier can carry.
FailureReasons ==
    {"unexpected", "empty", "badpassword", "corrupt",
     "extract_unexpected", "extract_badpassword", "extract_corrupt", "extract_io"}

\* C19: neither check raises to its caller: whatever is at the path (an
\* archive, a file that is none, nothing) and whether or not the scratch
\* directory can be made, each returns a pass or a failure pair with its
\* reason; so a run that fails after its commit fails with one of the two
\* errors _verify_archive makes from a failure pair.
C19_VerifierNeverRaises ==
    /\ probe.raised = "none"
    /\ probe.pc # "idle" =>
          \/ probe.integrity.ok /\ probe.integrity.reason = "ok"
          \/ ~probe.integrity.ok /\ probe.integrity.reason \in FailureReasons
    /\ probe.pc = "extract_ret" =>
          \/ probe.success.ok /\ probe.success.reason = "ok"
          \/ ~probe.success.ok /\ probe.success.reason \in FailureReasons
    /\ \A p \in Runs :
          (run[p].pc = "failed" /\ run[p].committed # NoContent) =>
              /\ ~run[p].success.ok /\ run[p].success.reason \in FailureReasons
              /\ run[p].raised = IF run[p].temp_dir = "None" /\ run[p].success.reason # "extract_io"
                                 THEN "IntegrityCheckFailed" ELSE "ExtractionTestFailed"

\* C19 witness: called on a path where no file is, verify_zip_integrity
\* returned a failure, and test_extraction, unable to make its scratch
\* directory, returned one too.
C19_Witness ==
    /\ probe.pc = "extract_ret"
    /\ probe.before = NoContent
    /\ probe.integrity = Result(FALSE, "unexpected", 0)
    /\ probe.temp_dir = "None" /\ probe.success = Result(FALSE, "extract_io", 0)

VerifierRecords ==
    {"verify_start", "integrity_ok", "integrity_failed", "integrity_passed",
     "extract_ok", "extract_failed", "extract_passed", "verify_done"}
ExtractionRecords == {"extract_ok", "extract_failed", "extract_passed"}

====
